---- MODULE Spec2Model ----
(***************************************************************************)
(* Model of the CCL reservation system (forms/services.py, forms/views.py, *)
(* forms/admin.py, forms/models.py): the relational rows Order,            *)
(* Reservation, Selection, FoodItem and Profile, and the handlers that     *)
(* create, pay and delete orders.                                          *)
(*                                                                         *)
(* Django runs every ORM statement in autocommit mode unless the code      *)
(* opens transaction.atomic(); no handler of the repository does, so a     *)
(* handler that raises keeps every row it had written before the raise.    *)
(***************************************************************************)
EXTENDS Integers, Sequences, FiniteSets, TLC

\* ------------------------------------------------------------------ bounds
MaxOrders == 2
MaxKeys == 2
MaxWeekday == 2
MaxQty == 2
MaxProfiles == 1
MaxInFlight == 2
MaxRaceOrders == 1

\* ------------------------------------------------------- program constants
SpendBlock == 50
CoinsPerBlock == 20
NewUserCoins == 50

Weekdays == 1..5

\* Prices of the FoodItem rows 1..Len(FoodPrices); id Len(FoodPrices)+1 is
\* the id of no row.
FoodPrices == <<49, 50>>
FoodIds == 1..(Len(FoodPrices) + 1)

Profiles == 1..MaxProfiles
FormTypes == {"lunch_form", "snacks_form"}
ActiveForm == "lunch_form"
Quantities == (0 - 1)..MaxQty

VARIABLES
    foodItem,       \* FoodItem rows: id -> price
    orders,         \* Order rows: id -> [paid, total_paid, profile, form, reservations]
    reservations,   \* Reservation rows: id -> [weekday, paid]
    selections,     \* Selection rows: set of [reservation, food_item, quantity]
    coins,          \* Profile.coins: profile -> Int
    nextOrderId,    \* next primary key of Order
    nextResId,      \* next primary key of Reservation
    inflight,       \* requests between their read and their write
    last,           \* the outcome of the most recent order submission
    forms,          \* LunchForm / SnacksForm rows: id -> [type, active, options]
    options,        \* Option rows: id -> [weekday, food_items]
    checkouts       \* checkout sessions created at the payment gateway

vars == <<foodItem, orders, reservations, selections, coins, nextOrderId,
          nextResId, inflight, last, forms, options, checkouts>>

db == <<foodItem, orders, reservations, selections, coins>>

NoRequest == [op |-> "none", status |-> "none", order |-> 0, weekdays |-> {}]

Init ==
    /\ foodItem = [i \in 1..Len(FoodPrices) |-> FoodPrices[i]]
    /\ orders = <<>>
    /\ reservations = <<>>
    /\ selections = {}
    /\ coins = [p \in Profiles |-> NewUserCoins]
    /\ nextOrderId = 1
    /\ nextResId = 1
    /\ inflight = {}
    /\ last = NoRequest
    /\ forms = <<>>
    /\ options = <<>>
    /\ checkouts = <<>>

\* ---------------------------------------------------------------- helpers
Put(f, k, v) == [x \in (DOMAIN f) \cup {k} |-> IF x = k THEN v ELSE f[x]]
Drop(f, k) == [x \in (DOMAIN f) \ {k} |-> f[x]]

\* Order.objects.create(form=..., profile=...): paid and total_paid take
\* their field defaults, no reservation is attached. The columns grade,
\* name and created_at are read by no handler and are left out.
NewOrder(form, profile) ==
    [paid |-> FALSE, total_paid |-> 0, profile |-> profile, form |-> form,
     reservations |-> {}]

\* The outcome of an order submission: the handler, how it ended ("ok" or
\* the exception raised), the Order row it created and the weekdays for
\* which the submitted form held a non-zero quantity.
Outcome(op, status, order, weekdays) ==
    [op |-> op, status |-> status, order |-> order, weekdays |-> weekdays]

\* Reservation.objects.create(weekday=...): paid takes its default.
NewReservation(weekday) == [weekday |-> weekday, paid |-> FALSE]

\* ------------------------------------------------- OrderService (services)
\* A submitted form is a sequence (the mapping's iteration order) of
\* entries [food_item_id, weekday_num, value] standing for the key
\* "{food_item_id}-{weekday_num}-quantity" and its value.
NonZero(form_data) == SelectSeq(form_data, LAMBDA e : e.value # 0)

group_raises(form_data) ==
    \E i \in 1..Len(NonZero(form_data)) :
        NonZero(form_data)[i].weekday_num \notin Weekdays

group_food_items_by_weekday(form_data) ==
    [d \in Weekdays |->
        SelectSeq(NonZero(form_data), LAMBDA e : e.weekday_num = d)]

\* LineTotal with the quantity left out of the line.
LineTotalUnit(price, quantity) == price
LineTotal(price, quantity) == price * quantity

\* total_coins without the rounding down to whole blocks of spend.
total_coins_unfloored(total_paid) == (total_paid * CoinsPerBlock) \div SpendBlock
total_coins(total_paid) == (total_paid \div SpendBlock) * CoinsPerBlock

\* ShouldAward without the test: the computed amount is always added.
ShouldAwardAlways(awarded) == TRUE
\* "if total_coins > 0": coins are only ever added.
ShouldAward(awarded) == awarded > 0

\* Profile.add_coins(amount): self.coins += amount; self.save().
add_coins(balance, profile, amount) == [balance EXCEPT ![profile] = @ + amount]

\* The inner loop of create_order_from_form_data over one weekday's items.
\* st = [sel, total, err]; stops at the first item that raises.
RECURSIVE AddSelections(_, _, _, _)
AddSelections(items, i, r, st) ==
    IF i > Len(items) \/ st.err # "ok" THEN st
    ELSE LET fid == items[i].food_item_id IN
         IF fid \notin DOMAIN foodItem
         THEN [st EXCEPT !.err = "DoesNotExist"]
         ELSE IF \E s \in st.sel : s.reservation = r /\ s.food_item = fid
         THEN [st EXCEPT !.err = "IntegrityError"]
         ELSE AddSelections(items, i + 1, r,
                [st EXCEPT
                   !.sel = @ \cup {[reservation |-> r, food_item |-> fid,
                                    quantity |-> items[i].value]},
                   !.total = @ + LineTotal(foodItem[fid], items[i].value)])

\* The outer loop over the weekdays "1".."5".
\* st = [res, sel, attached, total, nextRes, err].
RECURSIVE AddReservations(_, _, _)
AddReservations(groups, d, st) ==
    IF d > 5 \/ st.err # "ok" THEN st
    ELSE IF Len(groups[d]) = 0 THEN AddReservations(groups, d + 1, st)
    ELSE LET r == st.nextRes
             inner == AddSelections(groups[d], 1, r,
                        [sel |-> st.sel, total |-> st.total, err |-> "ok"])
             made == [st EXCEPT !.res = Put(@, r, NewReservation(d)),
                                !.nextRes = @ + 1,
                                !.sel = inner.sel,
                                !.total = inner.total,
                                !.err = inner.err]
         IN IF inner.err # "ok" THEN made
            ELSE AddReservations(groups, d + 1,
                    [made EXCEPT !.attached = @ \cup {r}])

NonZeroWeekdays(form_data) ==
    {form_data[i].weekday_num : i \in {j \in 1..Len(form_data) : form_data[j].value # 0}}

create_order_from_form_data(form_data, active_form, profile) ==
    /\ inflight = {}
    /\ nextOrderId <= MaxOrders
    /\ LET o == nextOrderId
           created == NewOrder(active_form, profile)
           start == [res |-> reservations, sel |-> selections, attached |-> {},
                     total |-> 0, nextRes |-> nextResId, err |-> "ok"]
           st == IF group_raises(form_data)
                 THEN [start EXCEPT !.err = "KeyError"]
                 ELSE AddReservations(group_food_items_by_weekday(form_data), 1, start)
           awarded == total_coins(st.total)
       IN /\ nextOrderId' = o + 1
          /\ nextResId' = st.nextRes
          /\ reservations' = st.res
          /\ selections' = st.sel
          /\ orders' = Put(orders, o,
                [created EXCEPT
                   !.reservations = st.attached,
                   !.total_paid = IF st.err = "ok" THEN st.total ELSE 0])
          /\ coins' = IF st.err = "ok" /\ ShouldAward(awarded)
                      THEN add_coins(coins, profile, awarded)
                      ELSE coins
          /\ last' = Outcome("create_order_from_form_data", st.err, o,
                              NonZeroWeekdays(form_data))
    /\ UNCHANGED <<forms, options, checkouts, foodItem, inflight>>

\* The submitted forms the model draws from.
Entries == [food_item_id : FoodIds, weekday_num : 1..MaxWeekday, value : Quantities]
SameKey(a, b) == a.food_item_id = b.food_item_id /\ a.weekday_num = b.weekday_num
RECURSIVE FormDatasOfLen(_)
FormDatasOfLen(n) ==
    IF n = 0 THEN {<<>>}
    ELSE UNION {{Append(fd, e) :
                    e \in {x \in Entries : \A i \in 1..Len(fd) : ~SameKey(fd[i], x)}} :
                fd \in FormDatasOfLen(n - 1)}
FormDatas == UNION {FormDatasOfLen(n) : n \in 0..MaxKeys}

Submit ==
    \E fd \in FormDatas, p \in Profiles :
        create_order_from_form_data(fd, ActiveForm, p)

\* Submitted forms whose keys may parse to the same (food item, weekday):
\* "1-1-quantity" and "1-1-quantity-2" are two keys of one POST, and
\* key.split("-") reads food item 1 and weekday 1 from both.
RepeatingFormDatas == UNION {[1..n -> Entries] : n \in 0..MaxKeys}

SubmitRepeating ==
    /\ nextOrderId <= MaxRaceOrders
    /\ \E fd \in RepeatingFormDatas, p \in Profiles :
          create_order_from_form_data(fd, ActiveForm, p)

\* ------------------------------------------------------ views.index (POST)
\* The handler routed at "/", for a POST while a lunch form is active. It
\* creates the Order, then the Reservation of weekday 1, and raises
\* AttributeError at reservation.food_items (the Reservation model has no
\* such field) before anything is attached or total_paid is saved.
index(form_type, profile) ==
    /\ inflight = {}
    /\ nextOrderId <= MaxOrders
    /\ orders' = Put(orders, nextOrderId, NewOrder(form_type, profile))
    /\ nextOrderId' = nextOrderId + 1
    /\ reservations' = Put(reservations, nextResId, NewReservation(1))
    /\ nextResId' = nextResId + 1
    /\ last' = Outcome("index", "AttributeError", nextOrderId, {})
    /\ UNCHANGED <<forms, options, checkouts, foodItem, selections, coins, inflight>>

IndexPost == \E t \in FormTypes, p \in Profiles : index(t, p)

\* -------------------------------------------------------- views.webhooks
PaidEvent == "checkout_session.payment.paid"
EventTypes == {PaidEvent, "payment.failed"}

\* The metadata of a notification: the keys type, id and order_id, Absent
\* standing for a key the payload does not carry.
Absent == 0
OrderIds == 1..MaxOrders
Metadatas ==
    {[type |-> "", id |-> Absent, order_id |-> o] : o \in OrderIds}
    \cup {[type |-> t, id |-> i, order_id |-> Absent] :
             t \in {"order", "reservation"}, i \in OrderIds}

\* MarkPaid that flips the flag instead of setting it.
MarkPaidFlip(order) == [order EXCEPT !.paid = ~@]

\* order.paid = True on the instance read from the database.
MarkPaid(order) == [order EXCEPT !.paid = TRUE]

\* Model.save() of an Order instance on the table tbl: UPDATE of the row's
\* own columns when a row with that primary key exists, INSERT otherwise;
\* the rows of the many-to-many table Order.reservations are not written.
Save(tbl, id, obj) ==
    IF id \in DOMAIN tbl
    THEN [tbl EXCEPT ![id] = [obj EXCEPT !.reservations = tbl[id].reservations]]
    ELSE Put(tbl, id, [obj EXCEPT !.reservations = {}])

\* Model.delete() of an Order instance: the row and its rows of the
\* many-to-many table go; Reservation and Selection rows stay.
Delete(tbl, id) == Drop(tbl, id)

\* The response: "200", or the exception that ends the request.
webhooks_status(tbl, event_type, metadata) ==
    IF event_type # PaidEvent THEN "200"
    ELSE IF metadata.order_id = Absent THEN "KeyError"
    ELSE IF metadata.order_id \notin DOMAIN tbl THEN "DoesNotExist"
    ELSE "200"

\* webhooks_orders that writes the paid row whether or not the id matched
\* (update_or_create instead of get).
webhooks_orders_upsert(tbl, event_type, metadata) ==
    IF event_type = PaidEvent /\ metadata.order_id # Absent
    THEN Save(tbl, metadata.order_id,
              MarkPaid(IF metadata.order_id \in DOMAIN tbl
                       THEN tbl[metadata.order_id]
                       ELSE NewOrder(ActiveForm, 1)))
    ELSE tbl
\* The Order table after the request.
webhooks_orders(tbl, event_type, metadata) ==
    IF event_type = PaidEvent /\ webhooks_status(tbl, event_type, metadata) = "200"
    THEN Save(tbl, metadata.order_id, MarkPaid(tbl[metadata.order_id]))
    ELSE tbl

\* webhooks_reservations that also marks every Reservation row paid.
webhooks_reservations_paid(tbl, event_type, metadata) ==
    IF event_type = PaidEvent
    THEN [r \in DOMAIN tbl |-> [tbl[r] EXCEPT !.paid = TRUE]]
    ELSE tbl
\* The Reservation table after the request: the handler writes no
\* Reservation row.
webhooks_reservations(tbl, event_type, metadata) == tbl

webhooks(event_type, metadata) ==
    /\ inflight = {}
    /\ orders' = webhooks_orders(orders, event_type, metadata)
    /\ reservations' = webhooks_reservations(reservations, event_type, metadata)
    /\ UNCHANGED <<forms, options, checkouts, foodItem, selections, coins, nextOrderId, nextResId,
                   inflight, last>>

Webhook == \E e \in EventTypes, m \in Metadatas : webhooks(e, m)

\* ----------------------------------------------------- views.delete_order
\* MayDelete without the guard on the paid flag.
MayDeleteAny(order) == TRUE
MayDelete(order) == order.paid = FALSE

\* The response: the redirect to index, or the exception that ends the
\* request (a view that returns None raises ValueError).
delete_order_status(tbl, method, id) ==
    IF method # "POST" THEN "ValueError"
    ELSE IF id \notin DOMAIN tbl THEN "DoesNotExist"
    ELSE "redirect"

\* The Order table after the request.
delete_order_orders(tbl, method, id) ==
    IF delete_order_status(tbl, method, id) = "redirect" /\ MayDelete(tbl[id])
    THEN Delete(tbl, id)
    ELSE tbl

delete_order(method, id) ==
    /\ inflight = {}
    /\ orders' = delete_order_orders(orders, method, id)
    /\ UNCHANGED <<forms, options, checkouts, foodItem, reservations, selections, coins, nextOrderId,
                   nextResId, inflight, last>>

DeleteOrder == \E m \in {"GET", "POST"}, id \in OrderIds : delete_order(m, id)

\* ------------------------------------------------- admin actions on Order
\* Update that writes the opposite flag.
UpdateNegated(queryset, paid) ==
    [o \in DOMAIN orders |->
        IF o \in queryset THEN [orders[o] EXCEPT !.paid = ~paid] ELSE orders[o]]

\* queryset.update(paid=...) on the selected orders.
Update(queryset, paid) ==
    [o \in DOMAIN orders |->
        IF o \in queryset THEN [orders[o] EXCEPT !.paid = paid] ELSE orders[o]]

set_paid(queryset) ==
    /\ inflight = {}
    /\ queryset # {}
    /\ orders' = Update(queryset, TRUE)
    /\ UNCHANGED <<forms, options, checkouts, foodItem, reservations, selections, coins, nextOrderId,
                   nextResId, inflight, last>>

set_unpaid(queryset) ==
    /\ inflight = {}
    /\ queryset # {}
    /\ orders' = Update(queryset, FALSE)
    /\ UNCHANGED <<forms, options, checkouts, foodItem, reservations, selections, coins, nextOrderId,
                   nextResId, inflight, last>>

SetPaid == \E q \in SUBSET (DOMAIN orders) : set_paid(q)
SetUnpaid == \E q \in SUBSET (DOMAIN orders) : set_unpaid(q)

Next == Submit \/ IndexPost \/ Webhook \/ DeleteOrder \/ SetPaid \/ SetUnpaid

Spec == Init /\ [][Next]_vars

\* ------------------------------------- concurrent delete_order / webhooks
\* Each request runs in its own worker and each ORM call is its own
\* statement: a request reads its Order instance (Order.objects.get), and
\* later writes from that instance (order.save() / order.delete()).

webhooks_get(event_type, metadata) ==
    /\ Cardinality(inflight) < MaxInFlight
    /\ event_type = PaidEvent
    /\ webhooks_status(orders, event_type, metadata) = "200"
    /\ inflight' = inflight \cup {[op |-> "webhooks", id |-> metadata.order_id,
                                   obj |-> orders[metadata.order_id]]}
    /\ UNCHANGED <<forms, options, checkouts, foodItem, orders, reservations, selections, coins,
                   nextOrderId, nextResId, last>>

webhooks_save(req) ==
    /\ req.op = "webhooks"
    /\ orders' = Save(orders, req.id, MarkPaid(req.obj))
    /\ inflight' = inflight \ {req}
    /\ UNCHANGED <<forms, options, checkouts, foodItem, reservations, selections, coins, nextOrderId,
                   nextResId, last>>

delete_order_get(id) ==
    /\ Cardinality(inflight) < MaxInFlight
    /\ delete_order_status(orders, "POST", id) = "redirect"
    /\ inflight' = inflight \cup {[op |-> "delete_order", id |-> id, obj |-> orders[id]]}
    /\ UNCHANGED <<forms, options, checkouts, foodItem, orders, reservations, selections, coins,
                   nextOrderId, nextResId, last>>

delete_order_delete(req) ==
    /\ req.op = "delete_order"
    /\ orders' = IF MayDelete(req.obj) THEN Delete(orders, req.id) ELSE orders
    /\ inflight' = inflight \ {req}
    /\ UNCHANGED <<forms, options, checkouts, foodItem, reservations, selections, coins, nextOrderId,
                   nextResId, last>>

SubmitRace == nextOrderId <= MaxRaceOrders /\ Submit
WebhookGet == \E m \in Metadatas : webhooks_get(PaidEvent, m)
WebhookSave == \E req \in inflight : webhooks_save(req)
DeleteGet == \E id \in OrderIds : delete_order_get(id)
DeleteFinish == \E req \in inflight : delete_order_delete(req)

NextRepeating == SubmitRepeating \/ Webhook \/ DeleteOrder

SpecRepeating == Init /\ [][NextRepeating]_vars

NextRace == SubmitRace \/ WebhookGet \/ WebhookSave \/ DeleteGet \/ DeleteFinish

SpecRace == Init /\ [][NextRace]_vars

\* -------------------------------------------------------- views.pay_order
MaxCheckouts == 2
CentavosPerPeso == 100

\* The response: the checkout URL, or the exception that ends the request.
pay_order_status(tbl, id) ==
    IF id \notin DOMAIN tbl THEN "DoesNotExist" ELSE "checkout_url"

\* The checkout session posted to the gateway: the line item "Total" and
\* the metadata. The second line item, the service fee, is a value computed
\* in binary floating point that no handler reads back; it is left out.
cs_payload(tbl, id) ==
    [amount |-> tbl[id].total_paid * CentavosPerPeso, order_id |-> id]

\* The sessions at the gateway after the request: the view posts a session
\* for whichever Order it found, without reading order.paid.
pay_order_checkouts(tbl, sessions, id) ==
    IF pay_order_status(tbl, id) = "checkout_url"
    THEN Append(sessions, cs_payload(tbl, id))
    ELSE sessions

pay_order(id) ==
    /\ inflight = {}
    /\ Len(checkouts) < MaxCheckouts
    /\ checkouts' = pay_order_checkouts(orders, checkouts, id)
    /\ UNCHANGED <<forms, options, foodItem, orders, reservations, selections,
                   coins, nextOrderId, nextResId, inflight, last>>

PayOrder == \E id \in OrderIds : pay_order(id)

NextPay == SubmitRace \/ Webhook \/ DeleteOrder \/ PayOrder

SpecPay == Init /\ [][NextPay]_vars

\* ------------------------------------------- admin weekly forms (Catalog)
MaxForms == 2
MaxMenuOrders == 1

\* FoodItem.name and FoodItem.type of the rows 1..Len(FoodPrices).
FoodNames == <<"adobo", "sinigang">>
FoodTypes == <<"LUNCH", "LUNCH">>
FormCategories == {"LUNCH", "SNACKS"}

\* NewLunchForm / NewSnacksForm._get_food_items_queryset: the items a weekday
\* field of the admin form accepts.
get_food_items_queryset(type) == {i \in DOMAIN foodItem : FoodTypes[i] = type}

\* The cleaned weekday fields of a submitted admin form: weekday -> items.
CleanedDatas(type) ==
    {[d \in Weekdays |-> IF d <= MaxWeekday THEN m[d] ELSE {}] :
        m \in [1..MaxWeekday -> SUBSET get_food_items_queryset(type)]}

\* Option.objects.get_or_create(weekday=weekday_num): the Option row of that
\* weekday, whichever Form asks, or a new row. No handler deletes an Option,
\* so a new primary key is the number of rows plus one.
get_or_create(opts, weekday) ==
    IF \E op \in DOMAIN opts : opts[op].weekday = weekday
    THEN CHOOSE op \in DOMAIN opts : opts[op].weekday = weekday
    ELSE Cardinality(DOMAIN opts) + 1

\* The loop of BaseWeeklyForm.save over WEEKDAYS: st = [options, added].
RECURSIVE SaveOptions(_, _, _)
SaveOptions(cleaned_data, d, st) ==
    IF d > 5 THEN st
    ELSE LET op == get_or_create(st.options, d)
         IN SaveOptions(cleaned_data, d + 1,
               [options |-> Put(st.options, op,
                                [weekday |-> d, food_items |-> cleaned_data[d]]),
                added |-> st.added \cup {op}])

\* BaseWeeklyForm.save(commit=True) for the form row id (a new row when id
\* is not in the table): the ModelForm saves week and active, then every
\* weekday's Option is fetched or created, its items are replaced by the
\* selected ones and it is added to the form. The column week is read by no
\* handler and is left out. No handler deletes a Form.
save(id, type, active, cleaned_data) ==
    /\ inflight = {}
    /\ id \in DOMAIN forms => forms[id].type = type
    /\ id \notin DOMAIN forms => id = Cardinality(DOMAIN forms) + 1
    /\ LET st == SaveOptions(cleaned_data, 1, [options |-> options, added |-> {}])
           before == IF id \in DOMAIN forms THEN forms[id].options ELSE {}
       IN /\ options' = st.options
          /\ forms' = Put(forms, id, [type |-> type, active |-> active,
                                      options |-> before \cup st.added])
    /\ UNCHANGED <<checkouts, foodItem, orders, reservations, selections, coins,
                   nextOrderId, nextResId, inflight, last>>

SaveForm ==
    \E id \in 1..MaxForms, type \in FormCategories, active \in BOOLEAN :
        \E cleaned_data \in CleanedDatas(type) :
            save(id, type, active, cleaned_data)

\* An order submission against a form that is active, as index selects it
\* (filter(active=True).first()).
SubmitMenu ==
    /\ nextOrderId <= MaxMenuOrders
    /\ \E f \in {g \in DOMAIN forms : forms[g].active},
          fd \in FormDatasOfLen(0) \cup FormDatasOfLen(1), p \in Profiles :
          create_order_from_form_data(fd, f, p)

NextMenu == SaveForm \/ SubmitMenu

SpecMenu == Init /\ [][NextMenu]_vars

\* ------------------------------------------------ ReportService (services)
\* constants.WEEKDAYS
WEEKDAYS == <<"monday", "tuesday", "wednesday", "thursday", "friday">>
CountKeys == {WEEKDAYS[d] : d \in Weekdays} \cup {"total"}

NamesOf(food_items) == {FoodNames[i] : i \in food_items}

\* "Initialize counts" left out: every bucket stays as it was.
InitializeCountsSkipped(opts, count) == count
\* "Initialize counts": every item name of every Option of the form gets 0
\* in its weekday's bucket, and 0 in "total" unless it is there already.
RECURSIVE InitializeCounts(_, _)
InitializeCounts(opts, count) ==
    IF opts = {} THEN count
    ELSE LET op == CHOOSE x \in opts : \A y \in opts : x <= y
             day == WEEKDAYS[options[op].weekday]
             names == NamesOf(options[op].food_items)
         IN InitializeCounts(opts \ {op},
               [count EXCEPT
                  ![day] = [n \in (DOMAIN @) \cup names |->
                               IF n \in names THEN 0 ELSE @[n]],
                  !["total"] = [n \in (DOMAIN @) \cup names |->
                                   IF n \in DOMAIN @ THEN @[n] ELSE 0]])

\* The (order, selection) pairs the counting loop visits for a form.
SelectionsOfForm(form) ==
    {<<o, s>> \in (DOMAIN orders) \X selections :
        /\ orders[o].form = form
        /\ s.reservation \in orders[o].reservations
        /\ s.reservation \in DOMAIN reservations}

\* "Count actual orders": st = [count, err]; count[...][name] += quantity
\* raises KeyError when the name has no entry in that bucket.
RECURSIVE CountOrders(_, _)
CountOrders(visits, st) ==
    IF visits = {} \/ st.err # "ok" THEN st
    ELSE LET v == CHOOSE x \in visits : TRUE
             s == v[2]
             day == WEEKDAYS[reservations[s.reservation].weekday]
             name == FoodNames[s.food_item]
         IN IF name \notin DOMAIN st.count[day] \/ name \notin DOMAIN st.count["total"]
            THEN [st EXCEPT !.err = "KeyError"]
            ELSE CountOrders(visits \ {v},
                    [st EXCEPT !.count[day][name] = @ + s.quantity,
                               !.count["total"][name] = @ + s.quantity])

\* ReportService.generate_quantity_report(form): [err, count]; count is the
\* returned dict when err = "ok".
generate_quantity_report(form) ==
    LET empty == [k \in CountKeys |-> <<>>]
        zeroed == InitializeCounts(forms[form].options, empty)
        final == CountOrders(SelectionsOfForm(form), [count |-> zeroed, err |-> "ok"])
    IN IF final.err = "ok" THEN final ELSE [count |-> empty, err |-> final.err]

\* ================================================================ claims
SubmissionStep == nextOrderId' # nextOrderId

SelectionsOf(o) == {s \in selections : s.reservation \in orders[o].reservations}

RECURSIVE SumOfLines(_)
SumOfLines(sels) ==
    IF sels = {} THEN 0
    ELSE LET s == CHOOSE x \in sels : TRUE
         IN s.quantity * foodItem[s.food_item] + SumOfLines(sels \ {s})

\* C1: after a submission through create_order_from_form_data that
\* completed, the Order's persisted total_paid is the sum over the
\* Selections created for it of quantity times the FoodItem's price.
C1_TotalPaid ==
    (/\ last.op = "create_order_from_form_data"
     /\ last.status = "ok"
     /\ last.order \in DOMAIN orders)
    => orders[last.order].total_paid = SumOfLines(SelectionsOf(last.order))

C1_Witness ==
    /\ last.op = "create_order_from_form_data"
    /\ last.status = "ok"
    /\ last.order \in DOMAIN orders
    /\ Cardinality(SelectionsOf(last.order)) = 2
    /\ \E s \in SelectionsOf(last.order) : s.quantity = 2
    /\ orders[last.order].total_paid = 149

\* C2: a submission that fails on a FoodItem id that does not exist leaves
\* the persisted state as it was before the submission: no Order,
\* Reservation or Selection row and no coin credit from it.
C2_AllOrNothing ==
    [][(SubmissionStep /\ last'.op = "create_order_from_form_data"
                       /\ last'.status = "DoesNotExist")
       => /\ orders' = orders
          /\ reservations' = reservations
          /\ selections' = selections
          /\ coins' = coins]_vars

\* C3: a notification of type "reservation" for an existing Reservation
\* sets that Reservation's paid flag, and afterwards the owning Order is
\* paid if and only if all of its Reservations are paid.
C3_ReservationCascade ==
    \A md \in Metadatas :
        (md.type = "reservation" /\ md.id \in DOMAIN reservations)
        => LET res == webhooks_reservations(reservations, PaidEvent, md)
               ord == webhooks_orders(orders, PaidEvent, md)
           IN /\ res[md.id].paid
              /\ \A o \in DOMAIN ord :
                    md.id \in ord[o].reservations
                    => (ord[o].paid <=> \A r \in ord[o].reservations : res[r].paid)

\* C4: in every reachable state a paid Order owns only paid Reservations.
C4_PaidOrderOwnsPaidReservations ==
    \A o \in DOMAIN orders :
        orders[o].paid => \A r \in orders[o].reservations : reservations[r].paid

\* Paid flags of the rows that exist before and after a step do not go from
\* true to false.
Monotonic ==
    /\ \A o \in (DOMAIN orders) \cap (DOMAIN orders') :
          orders[o].paid => orders'[o].paid
    /\ \A r \in (DOMAIN reservations) \cap (DOMAIN reservations') :
          reservations[r].paid => reservations'[r].paid

\* C5 (as stated): no step takes an Order or a Reservation from paid back
\* to unpaid.
C5_PaidIsMonotonic == [][Monotonic]_vars

\* C5 (amended): no webhook delivery, order submission, delete_order
\* request or set_paid action takes an Order or a Reservation from paid
\* back to unpaid; only the admin action set_unpaid does.
C5_PaidMonotonicButSetUnpaid ==
    [][(\/ \E e \in EventTypes, md \in Metadatas : webhooks(e, md)
        \/ \E m \in {"GET", "POST"}, id \in OrderIds : delete_order(m, id)
        \/ \E q \in SUBSET (DOMAIN orders) : set_paid(q)
        \/ SubmissionStep)
       => Monotonic]_vars

C5_Witness ==
    \E o1, o2 \in DOMAIN orders :
        /\ o1 # o2
        /\ orders[o1].paid
        /\ ~orders[o2].paid
        /\ orders[o1].reservations # {}

\* C6: delete_order on a paid Order leaves the Order table as it is, and
\* on an unpaid Order removes that Order's row and no other; neither
\* touches a Reservation or Selection row.
C6_DeleteGuard ==
    /\ [](\A id \in DOMAIN orders :
            LET after == delete_order_orders(orders, "POST", id)
            IN IF orders[id].paid
               THEN after = orders
               ELSE /\ DOMAIN after = (DOMAIN orders) \ {id}
                    /\ \A o \in DOMAIN after : after[o] = orders[o])
    /\ [][(\E id \in OrderIds : delete_order("POST", id))
          => UNCHANGED <<reservations, selections, coins>>]_vars

C6_Witness ==
    /\ \E o \in 1..(nextOrderId - 1) : o \notin DOMAIN orders
    /\ \E o \in DOMAIN orders : orders[o].paid /\ orders[o].reservations # {}

\* C7: under every interleaving of a delete_order request and a webhook
\* for the same Order, a paid Order is never deleted and a deleted Order
\* never comes back as a paid row.
C7_NoPaidOrderLost ==
    [][\A o \in OrderIds :
          /\ (o \in DOMAIN orders /\ orders[o].paid) => o \in DOMAIN orders'
          /\ (o < nextOrderId /\ o \notin DOMAIN orders) => o \notin DOMAIN orders']_vars

\* C8: delivering the same "order paid" notification a second time leaves
\* the state as the first delivery left it, with the Order paid.
C8_Idempotent ==
    /\ [](\A md \in Metadatas :
            md.order_id \in DOMAIN orders
            => LET once == webhooks_orders(orders, PaidEvent, md)
                   twice == webhooks_orders(once, PaidEvent, md)
               IN /\ once[md.order_id].paid
                  /\ twice = once
                  /\ webhooks_status(once, PaidEvent, md) = "200")
    /\ [][(\E md \in Metadatas : webhooks(PaidEvent, md))
          => UNCHANGED <<forms, options, checkouts, foodItem, reservations, selections, coins>>]_vars

C8_Witness ==
    \E o \in DOMAIN orders :
        /\ orders[o].paid
        /\ orders[o].total_paid = 100
        /\ coins[orders[o].profile] = NewUserCoins + 40

\* C9: a submission whose Order has total amount T credits
\* floor(T / 50) * 20 coins to the submitting Profile when that number is
\* positive, and nothing otherwise; no other Profile's balance changes.
C9_CoinsCredited ==
    [][SubmissionStep
       => LET o == last'.order
              T == orders'[o].total_paid
              c == (T \div 50) * 20
          IN \A p \in Profiles :
                coins'[p] = coins[p]
                            + (IF p = orders'[o].profile /\ c > 0 THEN c ELSE 0)]_vars

C9_Witness ==
    /\ last.op = "create_order_from_form_data"
    /\ last.status = "ok"
    /\ nextOrderId = 3
    /\ DOMAIN orders = {1, 2}
    /\ orders[1].total_paid = 149
    /\ orders[2].total_paid = 150
    /\ coins[1] = NewUserCoins + 40 + 60

\* C10: a submission creates a Reservation for weekday d only if the
\* submitted form holds a non-zero quantity for d, and a submission that
\* completes creates one for every such d; when every quantity is zero or
\* absent no Reservation is created and total_paid is 0.
C10_Sparse ==
    [][SubmissionStep
       => LET created == {reservations'[r].weekday :
                            r \in (DOMAIN reservations') \ (DOMAIN reservations)}
          IN /\ created \subseteq last'.weekdays
             /\ last'.status = "ok" => created = last'.weekdays
             /\ last'.weekdays = {} => orders'[last'.order].total_paid = 0]_vars

RECURSIVE SumOfQuantities(_)
SumOfQuantities(visits) ==
    IF visits = {} THEN 0
    ELSE LET v == CHOOSE x \in visits : TRUE
         IN v[2].quantity + SumOfQuantities(visits \ {v})

\* The selections of item name n in Reservations of weekday d of the
\* Orders of form f.
Ordered(f, d, n) ==
    {v \in SelectionsOfForm(f) :
        /\ reservations[v[2].reservation].weekday = d
        /\ FoodNames[v[2].food_item] = n}

RECURSIVE SumOverDays(_, _, _)
SumOverDays(count, n, d) ==
    IF d > 5 THEN 0
    ELSE (IF n \in DOMAIN count[WEEKDAYS[d]] THEN count[WEEKDAYS[d]][n] ELSE 0)
         + SumOverDays(count, n, d + 1)

\* C12: the quantity report of every Form gives, for every weekday d and
\* item name n, the sum of Selection.quantity over the Selections of n in
\* Reservations of weekday d of the Form's Orders (an item without an entry
\* has none ordered), and its "total" for n is the sum of the five weekday
\* counts of n.
C12_ReportCounts ==
    \A f \in DOMAIN forms :
        LET report == generate_quantity_report(f) IN
        /\ report.err = "ok"
        /\ \A d \in Weekdays, i \in DOMAIN foodItem :
              LET n == FoodNames[i]
                  expected == SumOfQuantities(Ordered(f, d, n))
              IN IF n \in DOMAIN report.count[WEEKDAYS[d]]
                 THEN report.count[WEEKDAYS[d]][n] = expected
                 ELSE expected = 0
        /\ \A n \in DOMAIN report.count["total"] :
              report.count["total"][n] = SumOverDays(report.count, n, 1)

\* C13: generate_quantity_report returns a report for every Form in every
\* state reachable through admin saves and order submissions.
C13_ReportNeverFails ==
    \A f \in DOMAIN forms : generate_quantity_report(f).err = "ok"

\* A payment notification the handler cannot apply: it lacks the order_id
\* key, or its order_id is the id of no Order.
Malformed(metadata) ==
    metadata.order_id = Absent \/ metadata.order_id \notin DOMAIN orders

\* C14: a paid notification that lacks the order_id key or names no Order
\* ends in an error (the request raises, no 200 response) and leaves every
\* Order and Reservation row as it was.
C14_MalformedRejected ==
    \A md \in Metadatas :
        Malformed(md) =>
            /\ webhooks_status(orders, PaidEvent, md) \in {"KeyError", "DoesNotExist"}
            /\ webhooks_orders(orders, PaidEvent, md) = orders
            /\ webhooks_reservations(reservations, PaidEvent, md) = reservations

\* An Order exists while the Order with id 1 was deleted: a notification
\* for order 1 names no Order, one without order_id lacks the key.
C14_Witness ==
    /\ orders # <<>>
    /\ 1 \notin DOMAIN orders
    /\ webhooks_status(orders, PaidEvent,
                       [type |-> "", id |-> Absent, order_id |-> 1]) = "DoesNotExist"
    /\ webhooks_status(orders, PaidEvent,
                       [type |-> "order", id |-> 2, order_id |-> Absent]) = "KeyError"

\* C15: a pay_order request for an Order that is already paid creates no
\* checkout session and changes nothing.
C15_PaidOrderNotPayable ==
    [][\A id \in DOMAIN orders :
          (orders[id].paid /\ pay_order(id)) => UNCHANGED vars]_vars

\* The food items form g offers on weekday d, with the Form rows fs and
\* the Option rows os.
Menu(fs, os, g, d) ==
    UNION {os[op].food_items : op \in {x \in fs[g].options : os[x].weekday = d}}

\* C16: after an admin save of a weekly form every Form has exactly one
\* Option per weekday, and the save leaves the items every other Form
\* offers on each weekday as they were.
C16_OptionsPerForm ==
    [][\A id \in 1..MaxForms, type \in FormCategories, active \in BOOLEAN :
          \A cleaned_data \in CleanedDatas(type) :
             save(id, type, active, cleaned_data) =>
                /\ \A g \in DOMAIN forms', d \in Weekdays :
                      Cardinality({op \in forms'[g].options :
                                      options'[op].weekday = d}) = 1
                /\ \A g \in (DOMAIN forms) \ {id}, d \in Weekdays :
                      Menu(forms', options', g, d) = Menu(forms, options, g, d)]_vars

\* Selection.Meta.unique_together: no two Selections share their (Reservation, FoodItem) pair.
UniqueTogether ==
    \A s \in selections, t \in selections :
        (s.reservation = t.reservation /\ s.food_item = t.food_item) => s = t

\* C17: no two Selections share their (Reservation, FoodItem) pair, and a
\* submission that names a food item twice for one weekday (it ends with
\* IntegrityError) leaves no Order, Reservation or Selection behind.
C17_UniqueSelections ==
    [][/\ UniqueTogether'
       /\ (SubmissionStep /\ last'.status = "IntegrityError")
             => /\ orders' = orders
                /\ reservations' = reservations
                /\ selections' = selections]_vars

\* C18: at most one LunchForm and at most one SnacksForm is active.
C18_OneActivePerCategory ==
    \A f \in DOMAIN forms, g \in DOMAIN forms :
        (forms[f].active /\ forms[g].active /\ forms[f].type = forms[g].type)
            => f = g

\* The Orders a Reservation is attached to.
OwnersOf(r) == {o \in DOMAIN orders : r \in orders[o].reservations}

\* C19: every Reservation row is attached to exactly one Order.
C19_ReservationHasOneOrder ==
    \A r \in DOMAIN reservations : Cardinality(OwnersOf(r)) = 1

\* C20: every Selection has a quantity above 0 and every Order a
\* total_paid of at least 0.
C20_PositiveQuantities ==
    /\ \A s \in selections : s.quantity > 0
    /\ \A o \in DOMAIN orders : orders[o].total_paid >= 0

\* C21: no step of a submission, a payment notification or a deletion
\* lowers a Profile's coins, and delete_order leaves every balance as it
\* is, so the coins credited for an Order outlive its deletion.
C21_CoinsNeverDecrease ==
    [][/\ \A p \in Profiles : coins'[p] >= coins[p]
       /\ (\E m \in {"GET", "POST"}, id \in OrderIds : delete_order(m, id))
             => coins' = coins]_vars

\* Two orders were submitted and deleted again: no Order is left, nothing
\* was paid, and the balance holds the coins credited for both.
C21_Witness ==
    /\ orders = <<>>
    /\ nextOrderId = 3
    /\ \E p \in Profiles : coins[p] >= NewUserCoins + 2 * CoinsPerBlock

\* C22: a paid notification for Order X sets X.paid and changes nothing
\* else (X's other columns and reservations, the other Orders, the
\* Reservation and Selection rows and the coins stay); a notification of
\* another event type changes nothing at all.
C22_OnlyPaidChanges ==
    [][\A e \in EventTypes, md \in Metadatas :
          webhooks(e, md) =>
             /\ e # PaidEvent => UNCHANGED vars
             /\ reservations' = reservations
             /\ selections' = selections
             /\ coins' = coins
             /\ DOMAIN orders' = DOMAIN orders
             /\ \A o \in DOMAIN orders :
                   orders'[o] = IF e = PaidEvent /\ o = md.order_id
                                THEN [orders[o] EXCEPT !.paid = TRUE]
                                ELSE orders[o]]_vars

\* Order 1 was paid by a notification-sized change: it is paid, keeps its
\* total and its reservations, while Order 2 is still unpaid.
C22_Witness ==
    /\ DOMAIN orders = {1, 2}
    /\ orders[1].paid /\ orders[1].total_paid > 0 /\ orders[1].reservations # {}
    /\ ~orders[2].paid
    /\ webhooks_orders([orders EXCEPT ![1].paid = FALSE], PaidEvent,
                       [type |-> "", id |-> Absent, order_id |-> 1]) = orders

====
